---- MODULE Spec2Model ----
(***************************************************************************)
(* gmailbackup.py: one run of main() against an IMAP server.               *)
(*                                                                         *)
(* The program is single-threaded; pc is the position of main().  The      *)
(* IMAP server, the local disk, the progress sink and the operator's ^C    *)
(* are the environment: every outcome a call can have is a separate        *)
(* action or a choice inside it.                                           *)
(***************************************************************************)
EXTENDS Integers, Sequences, FiniteSets, TLC

(***************************************************************************)
(* Bounds of the model.                                                    *)
(***************************************************************************)
\* Mailboxes of 0..MaxMessages messages are explored exhaustively.
MaxMessages == 10
\* One larger mailbox size is explored as well.
LargeMailbox == 57
\* SIGINTs delivered during one run.
MaxSigints == 1
\* Messages of the mailbox when a caller drives a MailboxIterator.
MaxIterMessages == 3
\* Calls a caller makes on a MailboxIterator after constructing it.
MaxIterCalls == 6
\* Calls a caller makes on a GmailClient.
MaxClientCalls == 8

(***************************************************************************)
(* Program constants.                                                      *)
(***************************************************************************)
DEFAULT_LABEL == "[Gmail]/All Mail"
DEFAULT_FORMAT == "(RFC822)"

\* Inputs: the label lists of --labels after split(',') and strip().
InputLabels == { <<DEFAULT_LABEL>>, <<"Inbox", "Archive">> }
\* Raw message bodies the server may return for a fetch: distinct and
\* byte-identical messages both occur in one mailbox.
Bodies == { "eml-a", "eml-b", "eml-c" }
\* Sizes of the search result: every mailbox may hold 0..MaxMessages
\* messages, and the all-mail mailbox may also hold LargeMailbox.
MailboxSizes(label) ==
    IF label = DEFAULT_LABEL THEN (0..MaxMessages) \cup {LargeMailbox}
    ELSE 0..MaxMessages

NoMessage == "no-message"
NoMailbox == "no-mailbox"
\* Content of a file that open(..., 'w+') created or truncated and that
\* f.write has not (fully) written.
Truncated == "truncated"

(***************************************************************************)
(* Python floats: IEEE-754 binary64 values m * 2^e with a 53-bit mantissa  *)
(* m, kept as two limbs <<hi, lo>>, m = hi * LimbBase + lo, so that every  *)
(* intermediate value stays below 2^31.  Only positive normal values       *)
(* occur.  Division rounds to nearest, ties to even.                       *)
(***************************************************************************)
MantBits == 53
\* 2^27
LimbBase == 134217728
\* 2^25: the high limb of a normalised mantissa is in [MinHi, 2 * MinHi).
MinHi == 33554432

Dbl(a) == <<2 * a[1] + (2 * a[2]) \div LimbBase, (2 * a[2]) % LimbBase>>
Half(a) == <<a[1] \div 2, (a[1] % 2) * (LimbBase \div 2) + a[2] \div 2>>
Geq(a, b) == a[1] > b[1] \/ (a[1] = b[1] /\ a[2] >= b[2])
Sub(a, b) == IF a[2] >= b[2] THEN <<a[1] - b[1], a[2] - b[2]>>
             ELSE <<a[1] - b[1] - 1, a[2] + LimbBase - b[2]>>
Inc(a) == IF a[2] + 1 = LimbBase THEN <<a[1] + 1, 0>> ELSE <<a[1], a[2] + 1>>

\* float(n) for an integer 0 < n < 2^26: exact.
FromInt(n) ==
    LET j == CHOOSE i \in 0..25 : n * 2^i >= MinHi /\ n * 2^i < 2 * MinHi
    IN [m |-> <<n * 2^j, 0>>, e |-> 0 - (j + 27)]

\* n steps of binary long division of r by d: <<quotient bits, 2 * remainder>>.
RECURSIVE LongDiv(_, _, _, _)
LongDiv(q, r, d, n) ==
    IF n = 0 THEN <<q, r>>
    ELSE LET bit == Geq(r, d)
             r1 == IF bit THEN Sub(r, d) ELSE r
             q1 == IF bit THEN Inc(Dbl(q)) ELSE Dbl(q)
         IN IF q1[1] >= 0 THEN LongDiv(q1, Dbl(r1), d, n - 1) ELSE <<q1, r1>>

\* a / b, correctly rounded.
FDiv(a, b) ==
    LET big == Geq(a.m, b.m)
        r0 == IF big THEN a.m ELSE Dbl(a.m)
        e0 == IF big THEN a.e - b.e - (MantBits - 1) ELSE a.e - b.e - MantBits
        qr == LongDiv(<<0, 0>>, r0, b.m, MantBits)
        q == qr[1]
        r2 == qr[2]
        up == IF r2 = b.m THEN q[2] % 2 = 1 ELSE Geq(r2, b.m)
        qq == IF up THEN Inc(q) ELSE q
    IN IF qq[1] >= 2 * MinHi THEN [m |-> Half(qq), e |-> e0 + 1]
       ELSE [m |-> qq, e |-> e0]

\* a <= b
FLeq(a, b) == a.e < b.e \/ (a.e = b.e /\ Geq(b.m, a.m))
\* 100.0
Hundred == FromInt(100)
\* The value of percent_complete before the first message of a mailbox.
NoPercent == [m |-> <<0, 0>>, e |-> 0]

\* A rearranged formula: percent = total / (count / 100.0).
PercentComplete_inverted(download_count, total_messages) ==
    FDiv(FromInt(total_messages), FDiv(FromInt(download_count), Hundred))

\* percent_complete = download_count / (total_messages / 100.0), for
\* total_messages > 0 (a zero total raises ZeroDivisionError, see Progress).
PercentComplete(download_count, total_messages) ==
    FDiv(FromInt(download_count), FDiv(FromInt(total_messages), Hundred))

(***************************************************************************)
(* State.                                                                  *)
(***************************************************************************)
VARIABLES
    pc,               \* position of main()
    labels,           \* main: the list of labels to back up
    label_idx,        \* main: index in labels of the label of the for loop
    connected,        \* GmailClient._connected
    authenticated,    \* GmailClient._authenticated
    ids,              \* MailboxIterator._ids
    id_iter,          \* MailboxIterator._id_iter: handles of _ids consumed
    raw_message,      \* save_mailbox: the message of the current iteration
    download_count,   \* save_mailbox: download_count
    percent_complete, \* save_mailbox: percent_complete
    exc,              \* the exception propagating, "None" when there is none
    exit_status,      \* how the process ended, "running" until then
    disk,             \* the output directory: file path -> content
    srv_state,        \* the IMAP session as the server sees it
    srv_selected,     \* the mailbox selected on the session
    issued,           \* IMAP commands issued on the session so far
    logouts,          \* LOGOUT commands issued
    fetched,          \* FETCH commands issued for the current mailbox
    writes,           \* files written for the current mailbox
    callbacks,        \* progress_updated calls for the current mailbox
    saved,            \* raw messages written for the current mailbox
    raised_by,        \* the operation that raised the first exception
    sigints,          \* SIGINTs delivered
    sigint_pc,        \* pc at the first SIGINT
    srv_readonly,     \* the selected mailbox was opened read-only
    srv_seen,         \* handles whose \Seen flag this session has set
    selected_at_logout, \* the mailbox still selected when LOGOUT was issued
    format,           \* MailboxIterator.format
    custom_key,       \* MailboxIterator._key is set (a key function given)
    srv_exists,       \* messages the mailbox holds on the server
    searched,         \* handles the last search returned
    result,           \* how the caller's last call ended
    last_call,        \* the caller's last call
    wire,             \* IMAP commands the last call sent, in order
    refused,          \* the command imaplib refused during the last call
    calls,            \* calls the caller has made
    ended             \* a pull has signalled StopIteration since the reset

client == <<connected, authenticated>>
iterator == <<ids, id_iter>>
locals == <<raw_message, download_count, percent_complete>>
server == <<srv_state, srv_selected, issued, logouts>>
counts == <<fetched, writes, callbacks, saved>>
signal == <<sigints, sigint_pc>>
session == <<srv_readonly, srv_seen, selected_at_logout>>
config == <<format, custom_key>>
call == <<srv_exists, searched, result, last_call, wire, refused, calls,
          ended>>
vars == <<pc, labels, label_idx, client, iterator, locals, exc, exit_status,
          disk, server, counts, raised_by, signal, session, config, call>>

EmptyDisk == [p \in {} |-> Truncated]

(***************************************************************************)
(* Pure helpers of the program.                                            *)
(***************************************************************************)
\* MailboxIterator.key: the SHA-256 hex digest of the raw message, modelled
\* as a collision-free tag of the message bytes.
key(raw) == <<"sha256", raw>>

\* main: the directory name of a label.
LabelPath(label) == IF label = DEFAULT_LABEL THEN "All Mail" ELSE label

\* save_mailbox: os.path.join(output_path, '%s.eml' % message_key)
EmailFile(output_path, message_key) == <<output_path, message_key, ".eml">>

\* The mailbox and the output directory of the current save_mailbox call.
mailbox == labels[label_idx]
output_path == LabelPath(mailbox)
email_file == EmailFile(output_path, key(raw_message))

\* A total that counts the handles not yet pulled.
total_messages_remaining == Len(ids) - id_iter

\* MailboxIterator.total_messages: len(self._ids)
total_messages == Len(ids)

\* An off-by-one end test: one pull too many.
HasNext_offbyone == id_iter <= Len(ids)

\* MailboxIterator.next: self._id_iter.next() yields a handle, or raises
\* StopIteration when every handle of _ids has been consumed.
HasNext == id_iter < Len(ids)

\* Files in a directory.
FilesIn(dir) == {p \in DOMAIN disk : p[1] = dir}

\* No caller-driven call has been made.
NoCall ==
    /\ srv_exists = 0
    /\ searched = 0
    /\ result = "none"
    /\ last_call = "none"
    /\ wire = <<>>
    /\ refused = "none"
    /\ calls = 0
    /\ ended = FALSE

Init ==
    /\ pc = "connect"
    /\ labels \in InputLabels
    /\ label_idx = 0
    /\ connected = FALSE
    /\ authenticated = FALSE
    /\ ids = <<>>
    /\ id_iter = 0
    /\ raw_message = NoMessage
    /\ download_count = 0
    /\ percent_complete = NoPercent
    /\ exc = "None"
    /\ exit_status = "running"
    /\ disk = EmptyDisk
    /\ srv_state = "DISCONNECTED"
    /\ srv_selected = NoMailbox
    /\ issued = {}
    /\ logouts = 0
    /\ fetched = 0
    /\ writes = 0
    /\ callbacks = 0
    /\ saved = {}
    /\ raised_by = "none"
    /\ sigints = 0
    /\ sigint_pc = "none"
    /\ srv_readonly = FALSE
    /\ srv_seen = {}
    /\ selected_at_logout = NoMailbox
    /\ format = DEFAULT_FORMAT
    /\ custom_key = FALSE
    /\ NoCall

\* An exception raised inside the with block by `op`: it leaves the block
\* through GmailClient.__exit__.
Raise(e, op) ==
    /\ exc' = e
    /\ raised_by' = IF raised_by = "none" THEN op ELSE raised_by
    /\ pc' = "exit"

(***************************************************************************)
(* GmailClient.__enter__ / connect                                         *)
(***************************************************************************)
\* imaplib.IMAP4_SSL(host, port) returns a connection.
Connect ==
    /\ pc = "connect"
    /\ connected' = TRUE
    /\ srv_state' = "NONAUTH"
    /\ pc' = "enter"
    /\ UNCHANGED <<config, call, session, labels, label_idx, authenticated, iterator, locals, exc,
                   exit_status, disk, srv_selected, issued, logouts, counts,
                   raised_by, signal>>

\* imaplib.IMAP4_SSL raises: __enter__ fails, the with block is not entered,
\* and main does not catch the error.
ConnectFails ==
    /\ pc = "connect"
    /\ exc' = "Exception"
    /\ raised_by' = "connect"
    /\ exit_status' = "uncaught"
    /\ pc' = "exited"
    /\ UNCHANGED <<config, call, session, labels, label_idx, client, iterator, locals, disk, server,
                   counts, signal>>

\* __enter__ returns self and the with block starts.
EnterWith ==
    /\ pc = "enter"
    /\ pc' = "authenticate"
    /\ UNCHANGED <<config, call, session, labels, label_idx, client, iterator, locals, exc,
                   exit_status, disk, server, counts, raised_by, signal>>

(***************************************************************************)
(* GmailClient.authenticate                                                *)
(***************************************************************************)
\* A login that sets _authenticated before the server has answered.
LoginRejected_flagset ==
    /\ pc = "authenticate"
    /\ connected
    /\ issued' = issued \cup {"LOGIN"}
    /\ authenticated' = TRUE
    /\ Raise("GmailClientException", "login")
    /\ UNCHANGED <<config, call, session, labels, label_idx, connected, iterator, locals,
                   exit_status, disk, srv_state, srv_selected, logouts,
                   counts, signal>>

\* login_method succeeds (login or, when advertised, login_cram_md5).
LoginOK ==
    /\ pc = "authenticate"
    /\ connected
    /\ issued' = issued \cup {"LOGIN"}
    /\ srv_state' = "AUTH"
    /\ authenticated' = TRUE
    /\ pc' = "labels"
    /\ UNCHANGED <<config, call, session, labels, label_idx, connected, iterator, locals, exc,
                   exit_status, disk, srv_selected, logouts, counts,
                   raised_by, signal>>

\* login_method raises imaplib.IMAP4.error: GmailClientException.
LoginRejected ==
    /\ pc = "authenticate"
    /\ connected
    /\ issued' = issued \cup {"LOGIN"}
    /\ Raise("GmailClientException", "login")
    /\ UNCHANGED <<config, call, session, labels, label_idx, client, iterator, locals, exit_status,
                   disk, srv_state, srv_selected, logouts, counts, signal>>

(***************************************************************************)
(* main: the loop over the labels                                          *)
(***************************************************************************)
\* The next label: save_mailbox starts and iter_mailbox constructs a
\* MailboxIterator (_ids = [], _id_iter = None) up to its call of reset().
SaveMailbox ==
    /\ pc = "labels"
    /\ label_idx < Len(labels)
    /\ authenticated
    /\ label_idx' = label_idx + 1
    /\ download_count' = 0
    /\ percent_complete' = NoPercent
    /\ raw_message' = NoMessage
    /\ ids' = <<>>
    /\ id_iter' = 0
    /\ fetched' = 0
    /\ writes' = 0
    /\ callbacks' = 0
    /\ saved' = {}
    /\ pc' = "reset"
    /\ UNCHANGED <<config, call, session, labels, client, exc, exit_status, disk, server, raised_by,
                   signal>>

\* Every label is done: sys.exit(SUCCESS) raises SystemExit in the with block.
LabelsDone ==
    /\ pc = "labels"
    /\ label_idx = Len(labels)
    /\ Raise("SystemExit", "exit")
    /\ UNCHANGED <<config, call, session, labels, label_idx, client, iterator, locals, exit_status,
                   disk, server, counts, signal>>

(***************************************************************************)
(* MailboxIterator.reset, called by MailboxIterator.__init__               *)
(***************************************************************************)
\* A select that leaves out the readonly argument: imaplib's default.
Readonly_default == FALSE

\* reset: self._client.select(self.mailbox, readonly=True)
Readonly == TRUE

\* imaplib.select sends EXAMINE when readonly is true, SELECT otherwise.
SelectCommand == IF Readonly THEN "EXAMINE" ELSE "SELECT"

\* The commands of reset() before the search: a CLOSE when a previous
\* search left handles in _ids, then the read-only select (EXAMINE).
ResetCommands == (IF ids # <<>> THEN {"CLOSE"} ELSE {}) \cup {SelectCommand}

\* select(mailbox, readonly=True) returns OK.
SelectOK ==
    /\ pc = "reset"
    /\ ids # <<>> => srv_state = "SELECTED"
    /\ issued' = issued \cup ResetCommands
    /\ srv_state' = "SELECTED"
    /\ srv_selected' = mailbox
    /\ srv_readonly' = Readonly
    /\ pc' = "search"
    /\ UNCHANGED <<config, call, srv_seen, selected_at_logout, labels, label_idx, client, iterator, locals, exc,
                   exit_status, disk, logouts, counts, raised_by, signal>>

\* select returns NO (no such mailbox): imaplib returns the response
\* without raising and leaves the session in state AUTH.
SelectNO ==
    /\ pc = "reset"
    /\ ids # <<>> => srv_state = "SELECTED"
    /\ issued' = issued \cup ResetCommands
    /\ srv_state' = "AUTH"
    /\ srv_selected' = NoMailbox
    /\ pc' = "search"
    /\ UNCHANGED <<config, call, session, labels, label_idx, client, iterator, locals, exc,
                   exit_status, disk, logouts, counts, raised_by, signal>>

\* search(None, 'ALL') answers with the handles 1..n of the mailbox;
\* _ids = ids[0].split() and _id_iter = iter(_ids).
Search ==
    /\ pc = "search"
    /\ srv_state = "SELECTED"
    /\ \E n \in MailboxSizes(mailbox) :
          ids' = [i \in 1..n |-> i]
    /\ id_iter' = 0
    /\ issued' = issued \cup {"SEARCH"}
    /\ pc' = "next"
    /\ UNCHANGED <<config, call, session, labels, label_idx, client, locals, exit_status, disk,
                   srv_state, srv_selected, logouts, counts, exc, raised_by,
                   signal>>

\* search on a session with no selected mailbox: imaplib raises
\* "command SEARCH illegal in state AUTH" before sending anything.
SearchIllegal ==
    /\ pc = "search"
    /\ srv_state # "SELECTED"
    /\ Raise("Exception", "search")
    /\ UNCHANGED <<config, call, session, labels, label_idx, client, iterator, locals, exit_status,
                   disk, server, counts, signal>>

(***************************************************************************)
(* MailboxIterator.next                                                    *)
(***************************************************************************)
\* The server sets \Seen on a message whose body is fetched with RFC822
\* unless the mailbox was opened read-only (EXAMINE).
FetchSeen(handle) ==
    IF srv_readonly \/ format # DEFAULT_FORMAT THEN srv_seen
    ELSE srv_seen \cup {handle}

\* The next handle is fetched and its message returned with its key.
Fetch ==
    /\ pc = "next"
    /\ HasNext
    /\ id_iter' = id_iter + 1
    /\ issued' = issued \cup {"FETCH"}
    /\ fetched' = fetched + 1
    /\ srv_seen' = FetchSeen(ids[id_iter + 1])
    /\ \E body \in Bodies : raw_message' = body
    /\ pc' = "open"
    /\ UNCHANGED <<config, call, srv_readonly, selected_at_logout, labels, label_idx, client, ids, download_count,
                   percent_complete, exc, exit_status, disk, srv_state,
                   srv_selected, logouts, writes, callbacks, saved,
                   raised_by, signal>>

\* The fetch fails: the connection breaks (imaplib raises), or the message
\* is gone from the server and data[0][1] raises TypeError.
FetchFails ==
    /\ pc = "next"
    /\ HasNext
    /\ id_iter' = id_iter + 1
    /\ issued' = issued \cup {"FETCH"}
    /\ fetched' = fetched + 1
    /\ Raise("Exception", "fetch")
    /\ UNCHANGED <<config, call, session, labels, label_idx, client, ids, locals, exit_status, disk,
                   srv_state, srv_selected, logouts, writes, callbacks,
                   saved, signal>>

\* An end of iteration that leaves the mailbox selected.
Exhausted_noclose ==
    /\ pc = "next"
    /\ ~HasNext
    /\ pc' = "labels"
    /\ UNCHANGED <<config, call, session, labels, label_idx, client, iterator, locals, exc,
                   exit_status, disk, server, counts, raised_by, signal>>

\* StopIteration: next() closes the mailbox and re-raises; the for loop of
\* save_mailbox ends, save_mailbox returns and main writes a newline.
Exhausted ==
    /\ pc = "next"
    /\ ~HasNext
    /\ srv_state = "SELECTED"
    /\ issued' = issued \cup {"CLOSE"}
    /\ srv_state' = "AUTH"
    /\ srv_selected' = NoMailbox
    /\ pc' = "labels"
    /\ UNCHANGED <<config, call, session, labels, label_idx, client, iterator, locals, exc,
                   exit_status, disk, logouts, counts, raised_by, signal>>

(***************************************************************************)
(* GmailClient.save_mailbox: the body of the for loop                      *)
(***************************************************************************)
\* open(email_file, 'w+') creates the file or truncates it.
OpenFile ==
    /\ pc = "open"
    /\ disk' = (email_file :> Truncated) @@ disk
    /\ pc' = "write"
    /\ UNCHANGED <<config, call, session, labels, label_idx, client, iterator, locals, exc,
                   exit_status, server, counts, raised_by, signal>>

\* open raises IOError.
OpenFails ==
    /\ pc = "open"
    /\ Raise("Exception", "open")
    /\ UNCHANGED <<config, call, session, labels, label_idx, client, iterator, locals, exit_status,
                   disk, server, counts, signal>>

\* A write that is skipped: the file stays as open() left it.
WriteFile_skipped ==
    /\ pc = "write"
    /\ pc' = "progress"
    /\ UNCHANGED <<config, call, session, labels, label_idx, client, iterator, locals, exc,
                   exit_status, disk, server, counts, raised_by, signal>>

\* f.write(raw_message) and the close of the file at the end of the with.
WriteFile ==
    /\ pc = "write"
    /\ disk' = (email_file :> raw_message) @@ disk
    /\ writes' = writes + 1
    /\ saved' = saved \cup {raw_message}
    /\ pc' = "progress"
    /\ UNCHANGED <<config, call, session, labels, label_idx, client, iterator, locals, exc,
                   exit_status, server, fetched, callbacks, raised_by,
                   signal>>

\* f.write raises IOError (disk full): the file stays truncated.
WriteFails ==
    /\ pc = "write"
    /\ Raise("Exception", "write")
    /\ UNCHANGED <<config, call, session, labels, label_idx, client, iterator, locals, exit_status,
                   disk, server, counts, signal>>

\* download_count += 1 and the percentage; a zero total_messages makes the
\* division raise ZeroDivisionError before the callback is reached.
Count ==
    /\ download_count' = download_count + 1
    /\ percent_complete' =
          IF total_messages = 0 THEN percent_complete
          ELSE PercentComplete(download_count + 1, total_messages)

\* progress_updated(message_key, percent_complete) returns.
ProgressUpdated ==
    /\ pc = "progress"
    /\ Count
    /\ IF total_messages = 0
       THEN /\ Raise("Exception", "percent")
            /\ UNCHANGED <<raw_message, callbacks>>
       ELSE /\ callbacks' = callbacks + 1
            /\ raw_message' = NoMessage
            /\ pc' = "next"
            /\ UNCHANGED <<exc, raised_by>>
    /\ UNCHANGED <<config, call, session, labels, label_idx, client, iterator, exit_status, disk,
                   server, fetched, writes, saved, signal>>

\* A failing callback whose exception is swallowed: the loop goes on.
ProgressRaises_swallowed ==
    /\ pc = "progress"
    /\ total_messages # 0
    /\ Count
    /\ callbacks' = callbacks + 1
    /\ raised_by' = IF raised_by = "none" THEN "callback" ELSE raised_by
    /\ pc' = "next"
    /\ UNCHANGED <<config, call, session, labels, label_idx, client, iterator, raw_message, exc,
                   exit_status, disk, server, fetched, writes, saved, signal>>

\* progress_updated raises (the progress sink fails).
ProgressRaises ==
    /\ pc = "progress"
    /\ total_messages # 0
    /\ Count
    /\ callbacks' = callbacks + 1
    /\ Raise("Exception", "callback")
    /\ UNCHANGED <<config, call, session, labels, label_idx, client, iterator, raw_message,
                   exit_status, disk, server, fetched, writes, saved, signal>>

(***************************************************************************)
(* GmailClient.__exit__ / close, and the end of main                       *)
(***************************************************************************)
\* Where the exception goes once __exit__ has returned: KeyboardInterrupt
\* to the except clause of main, anything else out of main.
AfterExit(e) == IF e = "KeyboardInterrupt" THEN "except" ELSE "exited"
StatusOf(e) == IF e = "KeyboardInterrupt" THEN "running"
               ELSE IF e = "SystemExit" THEN "SUCCESS" ELSE "uncaught"

\* A teardown that drops the session without the LOGOUT command.
Close_nologout ==
    /\ pc = "exit"
    /\ connected
    /\ connected' = FALSE
    /\ authenticated' = FALSE
    /\ pc' = AfterExit(exc)
    /\ exit_status' = StatusOf(exc)
    /\ UNCHANGED <<config, call, session, labels, label_idx, iterator, locals, exc, disk, server,
                   counts, raised_by, signal>>

\* __exit__ calls close(): logout, then the exception that ended the with
\* block propagates (__exit__ returns None).
Close ==
    /\ pc = "exit"
    /\ connected
    /\ issued' = issued \cup {"LOGOUT"}
    /\ logouts' = logouts + 1
    /\ srv_state' = "LOGOUT"
    /\ selected_at_logout' = srv_selected
    /\ srv_selected' = NoMailbox
    /\ connected' = FALSE
    /\ authenticated' = FALSE
    /\ pc' = AfterExit(exc)
    /\ exit_status' = StatusOf(exc)
    /\ UNCHANGED <<config, call, srv_readonly, srv_seen, labels, label_idx, iterator, locals, exc, disk, counts,
                   raised_by, signal>>

\* except KeyboardInterrupt without --debug: a message, sys.exit(FAILURE).
Terminate ==
    /\ pc = "except"
    /\ exit_status' = "FAILURE"
    /\ pc' = "exited"
    /\ UNCHANGED <<config, call, session, labels, label_idx, client, iterator, locals, exc, disk,
                   server, counts, raised_by, signal>>

\* except KeyboardInterrupt with --debug: the exception is raised again.
ReRaise ==
    /\ pc = "except"
    /\ exit_status' = "uncaught"
    /\ pc' = "exited"
    /\ UNCHANGED <<config, call, session, labels, label_idx, client, iterator, locals, exc, disk,
                   server, counts, raised_by, signal>>

(***************************************************************************)
(* SIGINT: Python raises KeyboardInterrupt in the main thread at the       *)
(* position it has reached.                                                *)
(***************************************************************************)
InWithBlock == pc \in {"authenticate", "labels", "reset", "search", "next",
                       "open", "write", "progress"}

\* The position a KeyboardInterrupt raised at pc leads to: inside the with
\* block to __exit__; in __enter__ or in __exit__/close before the logout,
\* to the except clause of main; in the except clause, out of main.
InterruptTarget ==
    IF InWithBlock THEN "exit"
    ELSE IF pc \in {"connect", "enter", "exit"} THEN "except"
    ELSE "exited"

Interrupt ==
    /\ pc # "exited"
    /\ sigints < MaxSigints
    /\ sigints' = sigints + 1
    /\ sigint_pc' = IF sigints = 0 THEN pc ELSE sigint_pc
    /\ exc' = "KeyboardInterrupt"
    /\ raised_by' = IF raised_by = "none" THEN "sigint" ELSE raised_by
    /\ pc' = InterruptTarget
    /\ exit_status' = IF InterruptTarget = "exited" THEN "uncaught"
                      ELSE exit_status
    /\ UNCHANGED <<config, call, session, labels, label_idx, client, iterator, locals, disk, server,
                   counts>>

Next ==
    \/ Connect \/ ConnectFails \/ EnterWith
    \/ LoginOK \/ LoginRejected
    \/ SaveMailbox \/ LabelsDone
    \/ SelectOK \/ SelectNO \/ Search \/ SearchIllegal
    \/ Fetch \/ FetchFails \/ Exhausted
    \/ OpenFile \/ OpenFails \/ WriteFile \/ WriteFails
    \/ ProgressUpdated \/ ProgressRaises
    \/ Close \/ Terminate \/ ReRaise
    \/ Interrupt

Spec == Init /\ [][Next]_vars

(***************************************************************************)
(* A caller driving one MailboxIterator on an authenticated session:       *)
(* MailboxIterator(client, mailbox, format=..., key=...), then reset(),    *)
(* next() and close() in any order, while other clients add messages to    *)
(* the mailbox and remove messages from it.  Each call is one step.        *)
(***************************************************************************)
\* The format argument: the default, or headers only.
Formats == {DEFAULT_FORMAT, "(RFC822.HEADER)"}

\* MailboxIterator.key raises ValueError('key function must be set if
\* format is not default'): no key function and a format other than the
\* default.
KeyUnset == ~custom_key /\ format # DEFAULT_FORMAT

\* imaplib refuses a command that is illegal in the state of the session
\* ("command CLOSE illegal in state AUTH") and raises before sending it.
\* CLOSE, SEARCH and FETCH are legal only while a mailbox is selected.
Legal == srv_state = "SELECTED"

InitIter ==
    /\ pc = "new"
    /\ labels = <<DEFAULT_LABEL>>
    /\ label_idx = 1
    /\ connected = TRUE
    /\ authenticated = TRUE
    /\ ids = <<>>
    /\ id_iter = 0
    /\ raw_message = NoMessage
    /\ download_count = 0
    /\ percent_complete = NoPercent
    /\ exc = "None"
    /\ exit_status = "running"
    /\ disk = EmptyDisk
    /\ srv_state = "AUTH"
    /\ srv_selected = NoMailbox
    /\ issued = {"LOGIN"}
    /\ logouts = 0
    /\ fetched = 0
    /\ writes = 0
    /\ callbacks = 0
    /\ saved = {}
    /\ raised_by = "none"
    /\ sigints = 0
    /\ sigint_pc = "none"
    /\ srv_readonly = FALSE
    /\ srv_seen = {}
    /\ selected_at_logout = NoMailbox
    /\ format \in Formats
    /\ custom_key \in BOOLEAN
    /\ srv_exists \in 0..MaxIterMessages
    /\ searched = 0
    /\ result = "none"
    /\ last_call = "none"
    /\ wire = <<>>
    /\ refused = "none"
    /\ calls = 0
    /\ ended = FALSE

\* What a call of the iterator leaves alone.
IterFrame ==
    UNCHANGED <<labels, label_idx, client, locals, exc, exit_status, disk,
                counts, raised_by, signal, selected_at_logout, config,
                srv_exists>>

\* The body of reset(): a close when a previous search left handles in
\* _ids, the read-only select, whose answer is `answer`, and the search.
\* A refused close ends reset() before the select; after a select answered
\* NO the search is refused and _ids and _id_iter stay as they were.
reset(answer) ==
    IF ids # <<>> /\ ~Legal
    THEN /\ refused' = "CLOSE"
         /\ result' = "imaplib.error"
         /\ wire' = <<>>
         /\ UNCHANGED <<iterator, server, srv_readonly, searched, ended>>
    ELSE LET closing == IF ids # <<>> THEN <<"CLOSE">> ELSE <<>>
         IN  IF answer = "OK"
             THEN /\ wire' = closing \o <<SelectCommand, "SEARCH">>
                  /\ issued' = issued \cup ResetCommands \cup {"SEARCH"}
                  /\ srv_state' = "SELECTED"
                  /\ srv_selected' = mailbox
                  /\ srv_readonly' = Readonly
                  /\ ids' = [i \in 1..srv_exists |-> i]
                  /\ id_iter' = 0
                  /\ searched' = srv_exists
                  /\ ended' = FALSE
                  /\ refused' = "none"
                  /\ result' = "ok"
                  /\ UNCHANGED logouts
             ELSE /\ wire' = closing \o <<SelectCommand>>
                  /\ issued' = issued \cup ResetCommands
                  /\ srv_state' = "AUTH"
                  /\ srv_selected' = NoMailbox
                  /\ refused' = "SEARCH"
                  /\ result' = "imaplib.error"
                  /\ UNCHANGED <<iterator, logouts, srv_readonly, searched,
                                 ended>>

\* MailboxIterator(client, mailbox, format=format, key=...): the arguments
\* have the types __init__ asks for, _ids = [], _id_iter = None, reset().
\* An exception of reset() leaves the caller without an iterator.
MailboxIterator_init ==
    /\ pc = "new"
    /\ \E answer \in {"OK", "NO"} : reset(answer)
    /\ last_call' = "__init__"
    /\ calls' = calls + 1
    /\ pc' = IF result' = "ok" THEN "ready" ELSE "failed"
    /\ srv_seen' = srv_seen
    /\ IterFrame

\* iterator.reset()
MailboxIterator_reset ==
    /\ pc = "ready"
    /\ calls <= MaxIterCalls
    /\ \E answer \in {"OK", "NO"} : reset(answer)
    /\ last_call' = "reset"
    /\ calls' = calls + 1
    /\ UNCHANGED <<pc, srv_seen>>
    /\ IterFrame

\* MailboxIterator.close: self._client.close().  imaplib sends CLOSE when a
\* mailbox is selected and refuses the command otherwise.
client_close ==
    IF Legal
    THEN /\ wire' = <<"CLOSE">>
         /\ issued' = issued \cup {"CLOSE"}
         /\ srv_state' = "AUTH"
         /\ srv_selected' = NoMailbox
         /\ refused' = "none"
         /\ UNCHANGED logouts
    ELSE /\ wire' = <<>>
         /\ refused' = "CLOSE"
         /\ UNCHANGED server

\* iterator.next(): the next handle is fetched and (key(raw), raw) is
\* returned; a handle the mailbox no longer holds is answered with no data
\* and data[0][1] raises TypeError.  At the end of the handles the
\* iterator closes the mailbox and raises StopIteration again; an error
\* raised by the close replaces the StopIteration.
MailboxIterator_next ==
    /\ pc = "ready"
    /\ calls <= MaxIterCalls
    /\ last_call' = "next"
    /\ calls' = calls + 1
    /\ IF HasNext
       THEN /\ id_iter' = id_iter + 1
            /\ IF Legal
               THEN /\ wire' = <<"FETCH">>
                    /\ issued' = issued \cup {"FETCH"}
                    /\ refused' = "none"
                    /\ IF ids[id_iter + 1] > srv_exists
                       THEN /\ result' = "TypeError"
                            /\ srv_seen' = srv_seen
                       ELSE /\ result' = IF KeyUnset THEN "ValueError"
                                         ELSE "item"
                            /\ srv_seen' = FetchSeen(ids[id_iter + 1])
               ELSE /\ wire' = <<>>
                    /\ refused' = "FETCH"
                    /\ result' = "imaplib.error"
                    /\ UNCHANGED <<issued, srv_seen>>
            /\ UNCHANGED <<ids, srv_state, srv_selected, logouts, ended>>
       ELSE /\ client_close
            /\ result' = IF Legal THEN "StopIteration" ELSE "imaplib.error"
            /\ ended' = (ended \/ Legal)
            /\ UNCHANGED <<iterator, srv_seen>>
    /\ UNCHANGED <<pc, srv_readonly, searched>>
    /\ IterFrame

\* iterator.close()
MailboxIterator_close ==
    /\ pc = "ready"
    /\ calls <= MaxIterCalls
    /\ last_call' = "close"
    /\ calls' = calls + 1
    /\ client_close
    /\ result' = IF Legal THEN "ok" ELSE "imaplib.error"
    /\ UNCHANGED <<pc, iterator, srv_readonly, srv_seen, searched, ended>>
    /\ IterFrame

\* What a step of another client of the mailbox leaves alone.
ServerFrame ==
    UNCHANGED <<pc, labels, label_idx, client, iterator, locals, exc,
                exit_status, disk, server, counts, raised_by, signal,
                session, config, searched, result, last_call, wire, refused,
                calls, ended>>

\* A message arrives in the mailbox.
ServerAppend ==
    /\ pc \in {"new", "ready"}
    /\ srv_exists < MaxIterMessages
    /\ srv_exists' = srv_exists + 1
    /\ ServerFrame

\* A message is expunged from the mailbox by another client.
ServerExpunge ==
    /\ pc \in {"new", "ready"}
    /\ srv_exists > 0
    /\ srv_exists' = srv_exists - 1
    /\ ServerFrame

NextIter ==
    \/ MailboxIterator_init
    \/ MailboxIterator_reset
    \/ MailboxIterator_next
    \/ MailboxIterator_close
    \/ ServerAppend
    \/ ServerExpunge

SpecIter == InitIter /\ [][NextIter]_vars

(***************************************************************************)
(* A caller driving one GmailClient: connect(), authenticate(...) and      *)
(* close() in any order.  Each call is one step.                           *)
(***************************************************************************)
InitClient ==
    /\ pc = "client"
    /\ labels = <<DEFAULT_LABEL>>
    /\ label_idx = 0
    /\ connected = FALSE
    /\ authenticated = FALSE
    /\ ids = <<>>
    /\ id_iter = 0
    /\ raw_message = NoMessage
    /\ download_count = 0
    /\ percent_complete = NoPercent
    /\ exc = "None"
    /\ exit_status = "running"
    /\ disk = EmptyDisk
    /\ srv_state = "DISCONNECTED"
    /\ srv_selected = NoMailbox
    /\ issued = {}
    /\ logouts = 0
    /\ fetched = 0
    /\ writes = 0
    /\ callbacks = 0
    /\ saved = {}
    /\ raised_by = "none"
    /\ sigints = 0
    /\ sigint_pc = "none"
    /\ srv_readonly = FALSE
    /\ srv_seen = {}
    /\ selected_at_logout = NoMailbox
    /\ format = DEFAULT_FORMAT
    /\ custom_key = FALSE
    /\ NoCall

\* What a call of the client leaves alone.
ClientFrame ==
    UNCHANGED <<pc, labels, label_idx, iterator, locals, exc, exit_status,
                disk, srv_selected, counts, raised_by, signal, srv_readonly,
                srv_seen, config, srv_exists, searched, wire, ended>>

\* client.connect(): self._client = IMAP4_SSL(host, port) is a new
\* connection, not yet logged in; _connected = True.  A connection the
\* client held before is dropped without a logout.
GmailClient_connect ==
    /\ pc = "client"
    /\ calls < MaxClientCalls
    /\ last_call' = "connect"
    /\ calls' = calls + 1
    /\ connected' = TRUE
    /\ srv_state' = "NONAUTH"
    /\ result' = "ok"
    /\ refused' = "none"
    /\ UNCHANGED <<authenticated, issued, logouts, selected_at_logout>>
    /\ ClientFrame

\* client.connect() when IMAP4_SSL raises: nothing is assigned.
GmailClient_connect_fails ==
    /\ pc = "client"
    /\ calls < MaxClientCalls
    /\ last_call' = "connect"
    /\ calls' = calls + 1
    /\ result' = "socket.error"
    /\ refused' = "none"
    /\ UNCHANGED <<client, server, selected_at_logout>>
    /\ ClientFrame

\* client.authenticate(username, password): asserts the connection; the
\* login sets _authenticated when the server accepts it and raises
\* GmailClientException when the server rejects it or when imaplib refuses
\* the command on a connection that is already logged in.
GmailClient_authenticate ==
    /\ pc = "client"
    /\ calls < MaxClientCalls
    /\ last_call' = "authenticate"
    /\ calls' = calls + 1
    /\ IF ~connected
       THEN /\ result' = "AssertionError"
            /\ refused' = "none"
            /\ UNCHANGED <<authenticated, srv_state, issued>>
       ELSE IF srv_state # "NONAUTH"
       THEN /\ result' = "GmailClientException"
            /\ refused' = "LOGIN"
            /\ UNCHANGED <<authenticated, srv_state, issued>>
       ELSE /\ issued' = issued \cup {"LOGIN"}
            /\ refused' = "none"
            /\ \E accepted \in BOOLEAN :
                  IF accepted
                  THEN /\ srv_state' = "AUTH"
                       /\ authenticated' = TRUE
                       /\ result' = "ok"
                  ELSE /\ result' = "GmailClientException"
                       /\ UNCHANGED <<authenticated, srv_state>>
    /\ UNCHANGED <<connected, logouts, selected_at_logout>>
    /\ ClientFrame

\* client.close(): asserts the connection, logs out, and clears both flags.
GmailClient_close ==
    /\ pc = "client"
    /\ calls < MaxClientCalls
    /\ last_call' = "close"
    /\ calls' = calls + 1
    /\ refused' = "none"
    /\ IF ~connected
       THEN /\ result' = "AssertionError"
            /\ UNCHANGED <<client, srv_state, issued, logouts,
                           selected_at_logout>>
       ELSE /\ issued' = issued \cup {"LOGOUT"}
            /\ logouts' = logouts + 1
            /\ srv_state' = "LOGOUT"
            /\ selected_at_logout' = srv_selected
            /\ connected' = FALSE
            /\ authenticated' = FALSE
            /\ result' = "ok"
    /\ ClientFrame

NextClient ==
    \/ GmailClient_connect
    \/ GmailClient_connect_fails
    \/ GmailClient_authenticate
    \/ GmailClient_close

SpecClient == InitClient /\ [][NextClient]_vars

(***************************************************************************)
(* Properties.                                                             *)
(***************************************************************************)
\* save_mailbox has returned normally for the current mailbox.
MailboxDone == pc = "labels" /\ label_idx >= 1
\* Positions outside the with block, after an exception left save_mailbox.
Aborted == pc \in {"exit", "except", "exited"}
\* The files written whole in the directory of the current mailbox.
WholeFiles(dir) == {p \in FilesIn(dir) : disk[p] # Truncated}

\* C1 (the claim as stated): when save_mailbox has run to completion over
\* a search result of N handles, N files were written, the callback was
\* invoked N times, and the last percentage is 100.0.
C1_Completeness ==
    MailboxDone =>
        /\ writes = total_messages
        /\ callbacks = total_messages
        /\ total_messages > 0 => percent_complete = Hundred

\* C2 (the claim as stated): a run that connected ends with exactly one
\* logout issued.
C2_LogoutExactlyOnce ==
    (pc = "exited" /\ srv_state # "DISCONNECTED") => logouts = 1

\* The run was interrupted once, at a message boundary of save_mailbox
\* (after the callback of message download_count, before the next fetch),
\* and has ended.
InterruptedAtBoundary ==
    /\ pc = "exited"
    /\ sigints = 1
    /\ sigint_pc = "next"
    /\ raised_by = "sigint"

\* C3 (the claim as stated): an interruption after message k leaves
\* exactly k files on disk and a completed logout.
C3_ExactlyKFiles ==
    InterruptedAtBoundary =>
        /\ Cardinality(FilesIn(output_path)) = download_count
        /\ logouts = 1

\* C3 (amended): an interruption after message k leaves exactly k completed
\* file writes, every file whole, one file per distinct content among the
\* k messages, and a completed logout.
C3_Interrupted ==
    InterruptedAtBoundary =>
        /\ fetched = download_count
        /\ writes = download_count
        /\ callbacks = download_count
        /\ FilesIn(output_path) =
              {EmailFile(output_path, key(b)) : b \in saved}
        /\ WholeFiles(output_path) = FilesIn(output_path)
        /\ Cardinality(saved) <= download_count
        /\ download_count > 0 => saved # {}
        /\ logouts = 1
        /\ srv_state = "LOGOUT"

\* The scenario of the claim: interrupted after message 3 of 10, three
\* files on disk, logged out.
C3_Witness ==
    /\ InterruptedAtBoundary
    /\ total_messages = 10
    /\ download_count = 3
    /\ Cardinality(FilesIn(output_path)) = 3
    /\ logouts = 1

\* C4: while the iterator holds no handles nothing is fetched, written or
\* reported, no percentage is computed (no ZeroDivisionError) and the loop
\* body is never entered.
C4_EmptyMailbox ==
    total_messages = 0 =>
        /\ fetched = 0 /\ writes = 0 /\ callbacks = 0 /\ download_count = 0
        /\ pc \notin {"open", "write", "progress"}
        /\ raised_by \notin {"percent", "fetch", "open", "write", "callback"}
        /\ label_idx >= 1 => FilesIn(output_path) = {}

\* save_mailbox has returned normally from an empty search result.
C4_Witness ==
    /\ MailboxDone
    /\ "SEARCH" \in issued
    /\ total_messages = 0
    /\ writes = 0 /\ callbacks = 0
    /\ exc = "None"

\* C5: once the login is rejected, _authenticated is false, the error is
\* GmailClientException (until a SIGINT replaces it), and no mailbox
\* command was or is issued on the session.
C5_BadCredentials ==
    raised_by = "login" =>
        /\ ~authenticated
        /\ sigints = 0 => exc = "GmailClientException"
        /\ issued \cap {"EXAMINE", "SELECT", "SEARCH", "FETCH", "CLOSE"} = {}
        /\ srv_selected = NoMailbox
        /\ Aborted

\* A rejected login has ended the run.
C5_Witness ==
    /\ raised_by = "login"
    /\ exc = "GmailClientException"
    /\ pc = "exited"
    /\ "LOGIN" \in issued

\* C6: the callback of a message is invoked once, after the message was
\* written whole to its file and before the next message is fetched or
\* written.
C6_WriteThenCallback ==
    [][ /\ callbacks' > callbacks =>
              /\ callbacks' = callbacks + 1
              /\ fetched = callbacks + 1
              /\ writes = callbacks + 1
              /\ email_file \in DOMAIN disk
              /\ disk[email_file] = raw_message
        /\ fetched' > fetched => (callbacks = fetched /\ writes = fetched)
        /\ writes' > writes => (writes' = fetched /\ callbacks = writes)
      ]_vars

\* Three messages were written and reported, in turn.
C6_Witness ==
    /\ pc = "next"
    /\ fetched = 3 /\ writes = 3 /\ callbacks = 3

\* C7: each percentage passed to the callback is at least the one before.
C7_NonDecreasing ==
    [][ (callbacks' > callbacks /\ callbacks >= 1) =>
            FLeq(percent_complete, percent_complete') ]_vars

\* A large mailbox was reported to its end.
C7_Witness ==
    /\ callbacks = LargeMailbox
    /\ MailboxDone

\* C8 (the claim as stated): every percentage passed to the callback is
\* at most 100.0 (and above 0).
C8_PercentInRange ==
    callbacks >= 1 =>
        /\ FLeq(percent_complete, Hundred)
        /\ percent_complete # NoPercent

\* C9: a mailbox is selected only while none is selected, it is the
\* mailbox of the current label, and the loop moves to the next label in
\* list order only once the mailbox of the current one is closed.
C9_Sequential ==
    [][ /\ (srv_selected' # srv_selected /\ srv_selected' # NoMailbox) =>
              (srv_selected = NoMailbox /\ srv_selected' = labels[label_idx])
        /\ label_idx' # label_idx =>
              (label_idx' = label_idx + 1 /\ srv_selected = NoMailbox)
      ]_vars

\* The second label's mailbox is selected after the first was backed up.
C9_Witness ==
    /\ label_idx = 2
    /\ srv_selected = labels[2]
    /\ Cardinality(FilesIn(LabelPath(labels[1]))) >= 1

\* C10: once the callback or the file write (open or write) has raised,
\* control is outside save_mailbox and stays there; nothing more is
\* fetched, written or reported and the disk does not change.
C10_AbortNoRollback ==
    [][ raised_by' \in {"callback", "open", "write"} =>
            /\ pc' \in {"exit", "except", "exited"}
            /\ raised_by \in {"callback", "open", "write"} =>
                  /\ fetched' = fetched
                  /\ writes' = writes
                  /\ callbacks' = callbacks
                  /\ disk' = disk
      ]_vars

\* The callback of the third message raised; the run ended with the three
\* files in place.
C10_Witness ==
    /\ raised_by = "callback"
    /\ pc = "exited"
    /\ writes = 3
    /\ Cardinality(WholeFiles(output_path)) = 3

(***************************************************************************)
(* Properties of a caller-driven MailboxIterator and GmailClient.          *)
(***************************************************************************)
\* The step is a call the caller makes (not a step of another client).
IsCall(name) == calls' = calls + 1 /\ last_call' = name
\* The commands among those the program may issue that change neither the
\* flags nor the existence of any message of a mailbox opened read-only.
ReadOnlyCommands == {"LOGIN", "EXAMINE", "SEARCH", "FETCH", "CLOSE", "LOGOUT"}

\* C11: every selection the iterator makes is read-only and no command that
\* changes a flag or the existence of a message is issued: after any
\* sequence of construction, reset, pull and close the calls have changed
\* neither the messages the mailbox holds nor a flag of any of them.
C11_ReadOnly ==
    [][ /\ issued' \subseteq ReadOnlyCommands
        /\ srv_state' = "SELECTED" => srv_readonly'
        /\ srv_seen' = {}
        /\ calls' # calls => srv_exists' = srv_exists ]_vars

\* A whole mailbox has been pulled to the end and closed, and the mailbox
\* holds what it held.
C11_Witness ==
    /\ last_call = "next"
    /\ result = "StopIteration"
    /\ searched >= 2
    /\ id_iter = searched
    /\ srv_exists = searched
    /\ srv_seen = {}
    /\ issued = {"LOGIN", "EXAMINE", "SEARCH", "FETCH", "CLOSE"}

\* C12 (the claim as stated): a reset() of an iterator whose mailbox is
\* still selected first sends CLOSE and only then the select, whatever the
\* earlier state of the iterator: also when its search returned no handle
\* and when it is partly consumed.
C12_ResetClosesFirst ==
    [][ (IsCall("reset") /\ srv_state = "SELECTED" /\ srv_selected = mailbox)
            => /\ Len(wire') >= 2
               /\ wire'[1] = "CLOSE"
               /\ wire'[2] = SelectCommand ]_vars

\* C13 (the claim as stated): whenever the logout is issued no mailbox is
\* still selected on the session, on every path that leads to the logout.
C13_NoMailboxAtLogout ==
    logouts >= 1 => selected_at_logout = NoMailbox

\* C14 (the claim as stated): a pull that finds the handles exhausted
\* closes the mailbox and signals the end of the sequence; a further pull
\* after that neither signals the end again nor raises an error caused by
\* closing the mailbox a second time.
C14_ExhaustionOnce ==
    [][ IsCall("next") =>
            IF ended
            THEN result' # "StopIteration" /\ refused' # "CLOSE"
            ELSE (~HasNext /\ Legal) =>
                     /\ result' = "StopIteration"
                     /\ srv_state' = "AUTH"
                     /\ srv_selected' = NoMailbox ]_vars

\* C15: total_messages is the number of handles the last search returned;
\* it does not change as messages are pulled or as messages arrive in or
\* leave the mailbox, and a pull does not send SEARCH.
C15_TotalFixed ==
    /\ total_messages = searched
    /\ last_call \in {"next", "close"} =>
           \A i \in 1..Len(wire) : wire[i] # "SEARCH"

\* Two messages have been pulled and the mailbox no longer holds the
\* number of messages it held at the search.
C15_Witness ==
    /\ last_call = "next"
    /\ result = "item"
    /\ id_iter = 2
    /\ searched >= 2
    /\ srv_exists # searched
    /\ total_messages = searched

\* C16 (the claim as stated): an iterator given a format other than the
\* default and no key function fails at construction with the
\* configuration error, before any select, search or fetch is issued.
C16_FailFast ==
    (KeyUnset /\ pc # "new") =>
        /\ pc = "failed"
        /\ result = "ValueError"
        /\ issued \cap {"EXAMINE", "SELECT", "SEARCH", "FETCH"} = {}

\* C17 (the claim as stated): is_authenticated is true only if the client
\* is connected and a login has succeeded on the connection the most
\* recent connect() created.
C17_AuthenticatedOnConnection ==
    authenticated => (connected /\ srv_state = "AUTH")

\* C18 (the claim as stated): the iterator calls close on the session only
\* while the mailbox it selected is still selected; neither reset() nor
\* next() nor close() asks for a CLOSE on a session with no selected
\* mailbox.
C18_CloseOnlyWhenOpen ==
    [][ (calls' # calls /\ (refused' = "CLOSE" \/
                            \E i \in 1..Len(wire') : wire'[i] = "CLOSE"))
            => (srv_state = "SELECTED" /\ srv_selected = mailbox) ]_vars
====
